---- MODULE Spec2Model ----
(***************************************************************************)
(* The four UDP senders of docker/senders (stop-and-wait, fixed sliding    *)
(* window, Tahoe, Tahoe/Vegas hybrid) as one state machine.  `variant'     *)
(* selects the script; every action is one step of that script's main().   *)
(* Indexes (base, next) are 0-based as in the Python code; the segment     *)
(* list chunksToSend is a TLA+ sequence, so segment i is chunksToSend[i+1]. *)
(* A Python float is modelled by an exact fraction [n, d] in lowest terms. *)
(***************************************************************************)
EXTENDS Integers, Sequences, FiniteSets, TLC

VARIABLES
    variant,          \* which sender script runs
    dataLen,          \* len(data): size of the payload file in bytes
    chunksToSend,     \* list of (sequenceID, payload) built by main(); payload kept as its length
    pc,               \* position of main(): "fill" | "send" | "await" | "finwait" | "done" | "fatal"
    base,             \* oldestUnACKedPacketNum / base / index of the stop-and-wait for loop
    next,             \* nextUnACKedPacketToSend / next_to_send
    congestionWindow, \* fraction [n, d]; unused by the fixed and stop-and-wait scripts
    slowStartThreshold,
    numDuplicateACKs,
    lastACKid,
    weShouldDoVegas,
    packetSendTimestamps, \* the keys (sequence IDs) of the send-time table
    RTTs,             \* the recorded round-trip samples, in order
    retries,          \* stop-and-wait timeout counter
    ev,               \* history: what the last step of the sender was
    inp,              \* history: the datagram the last receive step decoded
    out,              \* history: the datagrams the last step sent, in order
    transmitted,      \* history: indexes of the segments sent at least once
    dupRun,           \* history: duplicate ACKs received in a row (no new ACK, no timeout between)
    sends,            \* history: stop-and-wait transmissions of the current segment
    staleStamps,      \* history: sequence IDs sent again since their send-time entry was written
    chanSR,           \* datagrams in flight sender -> receiver
    chanRS,           \* datagrams in flight receiver -> sender
    rcvNext,          \* receiver: next expected offset
    rcvBuf,           \* receiver: out-of-order segments held back
    lossBudget        \* datagrams the network may still lose

senderVars ==
    <<variant, dataLen, chunksToSend, pc, base, next, congestionWindow,
      slowStartThreshold, numDuplicateACKs, lastACKid, weShouldDoVegas,
      packetSendTimestamps, RTTs, retries, ev, inp, out, transmitted, dupRun,
      sends, staleStamps>>

envVars ==
    <<chanSR, chanRS, rcvNext, rcvBuf, lossBudget>>

vars ==
    <<senderVars, envVars>>

----------------------------------------------------------------------------
\* Bounds of the model.

\* largest number of data chunks of a payload
MaxChunks == 4

\* longest run of duplicate ACKs the network delivers
MaxDupRun == 4

\* datagrams the network of the closed system may lose
MaxLoss == 1

\* most transmissions of one stop-and-wait segment that are followed
MaxSends == 5

\* data chunks of the long payload of the fixed-window runs (more than WINDOW_SIZE)
FixedLongChunks == 101

\* data chunks of the long payload of the slow-start runs
SlowStartChunks == 64

\* data chunks of the payload of the delay-based runs
VegasChunks == 17

\* in the long fixed-window runs the network delivers every AckStride-th boundary
AckStride == 10

----------------------------------------------------------------------------
\* Program constants.

PACKET_SIZE == 1024

SEQ_ID_SIZE == 4

MAX_SEGMENT_SIZE == PACKET_SIZE - SEQ_ID_SIZE

INITIAL_CONGESTION_WINDOW == 1

INITIAL_SLOW_START_THRESHOLD == 64

FAST_RETRANSMIT_THRESHOLD == 3

VEGAS_MIN_THROUGHPUT_DIFFERENCE == 2

VEGAS_MAX_THROUGHPUT_DIFFERENCE == 4

VEGAS_AMOUNT_TO_CHANGE == 1

RECENT_RTT_SAMPLES_TO_KEEP == 10

VEGAS_CONGESTION_AVOIDANCE_THRESHOLD == 3

WINDOW_SIZE == 100

MAX_TIMEOUTS == 3

\* len(b"error:") and len(b"couldn't load any payload candidates")
ErrorChunkLens == <<6, 36>>

Variants == {"saw", "fixed", "tahoe", "custom"}

Windowed == {"fixed", "tahoe", "custom"}

Adaptive == {"tahoe", "custom"}

Terminated == {"done", "fatal"}

\* message texts a datagram can decode to: "ack...", "fin...", anything else
Messages == {"ack", "fin", "other"}

\* round-trip times time.time() differences can yield (abstract units)
RTTValues == {1, 10}

\* the samples explored for a transfer of n segments: one value for the transfers
\* of MaxChunks chunks or more
RTTChoices(n) == IF n > MaxChunks THEN {1} ELSE RTTValues

----------------------------------------------------------------------------
\* Arithmetic.

Max(a, b) == IF a >= b THEN a ELSE b

Min(a, b) == IF a <= b THEN a ELSE b

RECURSIVE GCD(_, _)
GCD(a, b) == IF b = 0 THEN a ELSE GCD(b, a % b)

Frac(n, d) == LET g == GCD(n, d) IN [n |-> n \div g, d |-> d \div g]

FracOfInt(i) == [n |-> i, d |-> 1]

FracLess(x, y) == x.n * y.d < y.n * x.d

\* int(x) for x >= 0
IntPart(x) == x.n \div x.d

\* int(x / 2)
IntHalf(x) == x.n \div (2 * x.d)

\* x + k
FracPlusInt(x, k) == Frac(x.n + k * x.d, x.d)

\* x + k / x
FracPlusQuot(x, k) == Frac(x.n * x.n + k * x.d * x.d, x.n * x.d)

RECURSIVE SumSeq(_)
SumSeq(s) == IF s = <<>> THEN 0 ELSE s[1] + SumSeq(Tail(s))

RECURSIVE MinSeq(_)
MinSeq(s) == IF Len(s) = 1 THEN s[1] ELSE Min(s[1], MinSeq(Tail(s)))

----------------------------------------------------------------------------
\* Segmenter and packet codec.

\* splitPayloadIntoChunks(): the chunk lengths for a payload of S bytes
splitPayloadIntoChunks(S) ==
    IF S = 0
    THEN ErrorChunkLens
    ELSE [i \in 1..((S + MAX_SEGMENT_SIZE - 1) \div MAX_SEGMENT_SIZE) |->
            Min(MAX_SEGMENT_SIZE, S - (i - 1) * MAX_SEGMENT_SIZE)]

\* the range(0, len(data), MSS) loop of the fixed-window main()
FixedChunks(S) ==
    [i \in 1..((S + MAX_SEGMENT_SIZE - 1) \div MAX_SEGMENT_SIZE) |->
        Min(MAX_SEGMENT_SIZE, S - (i - 1) * MAX_SEGMENT_SIZE)]

PayloadChunks(v, S) == IF v = "fixed" THEN FixedChunks(S) ELSE splitPayloadIntoChunks(S)

\* main(): running sum of the chunk lengths, then the EOF marker
BuildChunksToSend(lens) ==
    [i \in 1..(Len(lens) + 1) |->
        [seq |-> SumSeq(SubSeq(lens, 1, i - 1)),
         len |-> IF i <= Len(lens) THEN lens[i] ELSE 0]]

\* sum(len(chunk) for chunk in payloadChunks) / len(data)
totalBytes == chunksToSend[Len(chunksToSend)].seq

makePacket(sequenceID, kind, length) ==
    [seq |-> sequenceID, kind |-> kind, len |-> length]

DataPacket(i) == makePacket(chunksToSend[i + 1].seq, "data", chunksToSend[i + 1].len)

\* mutant of FinAckPacket: the reply carries sequence 0 instead of the received ackID
FinAckPacketZeroSequence(ACKid) == makePacket(0, "FIN/ACK", 7)

\* makePacket(ACKid, b"FIN/ACK")
FinAckPacket(ACKid) == makePacket(ACKid, "FIN/ACK", 7)

\* sequenceID + len(payload) of segment i
nextExpectedACKid(i) == chunksToSend[i + 1].seq + chunksToSend[i + 1].len

\* Sizes of the payload file: empty, one byte, a short last chunk, whole chunks
PayloadSizes ==
    {0, 1, MAX_SEGMENT_SIZE + 1} \cup {k * MAX_SEGMENT_SIZE : k \in 1..MaxChunks}

\* ACK numbers the network can deliver: -1, every segment boundary, one past the end
AckIds == {-1} \cup {c.seq : c \in {chunksToSend[i] : i \in 1..Len(chunksToSend)}}
               \cup {totalBytes + 1}

----------------------------------------------------------------------------
\* Initial state: main() up to the first loop test.

\* main() from the segment list to the first loop test, for a given script and payload
SenderStart ==
    /\ chunksToSend = BuildChunksToSend(PayloadChunks(variant, dataLen))
    /\ pc = IF variant = "saw" THEN "send" ELSE "fill"
    /\ base = 0
    /\ next = 0
    /\ congestionWindow = FracOfInt(INITIAL_CONGESTION_WINDOW)
    /\ slowStartThreshold = INITIAL_SLOW_START_THRESHOLD
    /\ numDuplicateACKs = 0
    /\ lastACKid = -1
    /\ weShouldDoVegas = FALSE
    /\ packetSendTimestamps = {}
    /\ RTTs = <<>>
    /\ retries = 0
    /\ ev = "init"
    /\ inp = [ACKid |-> -1, message |-> "none"]
    /\ out = <<>>
    /\ transmitted = {}
    /\ dupRun = 0
    /\ sends = 0
    /\ staleStamps = {}

SenderInit ==
    /\ variant \in Variants
    /\ dataLen \in PayloadSizes
    /\ SenderStart

EnvInit ==
    /\ chanSR = <<>>
    /\ chanRS = <<>>
    /\ rcvNext = 0
    /\ rcvBuf = {}
    /\ lossBudget = 0

----------------------------------------------------------------------------
\* Pieces of the handlers.

\* mutant of windowEnd: the fixed window admits one segment more
windowEndWide ==
    base + (IF variant = "fixed" THEN WINDOW_SIZE + 1 ELSE IntPart(congestionWindow))

\* base + int(congestionWindow), or base + WINDOW_SIZE
windowEnd ==
    base + (IF variant = "fixed" THEN WINDOW_SIZE ELSE IntPart(congestionWindow))

\* value of next when the inner send loop stops
FillStop ==
    IF next < Len(chunksToSend) /\ next < windowEnd
    THEN Min(Len(chunksToSend), windowEnd)
    ELSE next

\* printMetrics(): sum(changesInRTT) / len(changesInRTT) divides by zero with one sample;
\* print_metrics() of the fixed-window script tests len(delays) > 1
printMetrics(v, rtts) ==
    IF v # "fixed" /\ Len(rtts) = 1 THEN "fatal" ELSE "done"

\* while base < len and ACKid >= nextExpectedACKid: base += 1
RECURSIVE SlideBase(_, _)
SlideBase(b, ACKid) ==
    IF b < Len(chunksToSend) /\ ACKid >= nextExpectedACKid(b)
    THEN SlideBase(b + 1, ACKid)
    ELSE b

\* how many of the segments b0 .. b1-1 have a send time recorded
StampedIn(b0, b1) ==
    Cardinality({i \in b0..(b1 - 1) : chunksToSend[i + 1].seq \in packetSendTimestamps})

\* staleStamps after the send loop has sent the segments with sequence IDs sent:
\* Tahoe and hybrid write packetSendTimestamps[sequenceID] at every send, the
\* fixed-window script only "if seq_id not in send_times"
Restamped(stale, sent) ==
    IF variant = "fixed"
    THEN stale \cup (sent \cap packetSendTimestamps)
    ELSE stale \ sent

\* staleStamps once base is b: entries of acknowledged segments are never read again
StillOutstanding(stale, b) ==
    {q \in stale : \E i \in b..(Len(chunksToSend) - 1) : chunksToSend[i + 1].seq = q}

\* staleStamps after the fast retransmit, which sends without writing a send time
Unstamped(stale, sent) == stale \cup (sent \cap packetSendTimestamps)

\* the duplicate-ACK test of the Tahoe and hybrid scripts
IsDuplicateACK(ACKid) == ACKid = lastACKid

\* mutant of FastRetransmitDue: fires one duplicate early
FastRetransmitDueEarly(n) == n >= FAST_RETRANSMIT_THRESHOLD - 1

\* numDuplicateACKs == FAST_RETRANSMIT_THRESHOLD
FastRetransmitDue(n) == n = FAST_RETRANSMIT_THRESHOLD

\* mutant of TimeoutThreshold: the floor of the fast-retransmit rule
TimeoutThresholdFloorTwo(cw) == Max(IntHalf(cw), 2)

\* slowStartThreshold set by a timeout: max(int(congestionWindow / 2), 1)
TimeoutThreshold(cw) == Max(IntHalf(cw), 1)

\* congestionWindow set by a timeout
TimeoutWindow == FracOfInt(INITIAL_CONGESTION_WINDOW)

\* slowStartThreshold set by a fast retransmit
FastRetransmitThreshold(v, cw) ==
    IF v = "tahoe" THEN Max(IntHalf(cw), 1) ELSE Max(IntHalf(cw), 2)

\* congestionWindow set by a fast retransmit
FastRetransmitWindow(v, newThreshold) ==
    IF v = "tahoe" THEN FracOfInt(newThreshold) ELSE FracOfInt(INITIAL_CONGESTION_WINDOW)

\* mutant of TahoeGrowth: slow start adds 1 per ACK instead of 1 per segment
TahoeGrowthByOne(cw, k) ==
    IF k > 0
    THEN IF FracLess(cw, FracOfInt(slowStartThreshold))
         THEN FracPlusInt(cw, 1)
         ELSE FracPlusQuot(cw, k)
    ELSE cw

\* Tahoe window growth for k newly acknowledged segments
TahoeGrowth(cw, k) ==
    IF k > 0
    THEN IF FracLess(cw, FracOfInt(slowStartThreshold))
         THEN FracPlusInt(cw, k)
         ELSE FracPlusQuot(cw, k)
    ELSE cw

\* vegasRTTs: the RECENT_RTT_SAMPLES_TO_KEEP latest samples
vegasRTTs(rtts) ==
    IF Len(rtts) > RECENT_RTT_SAMPLES_TO_KEEP
    THEN SubSeq(rtts, Len(rtts) - RECENT_RTT_SAMPLES_TO_KEEP + 1, Len(rtts))
    ELSE rtts

\* (expectedThroughput - actualThroughput) * minimumRTT as a fraction:
\* cw * (1 - min / avg) = cw * (sum - min * len) / sum
throughputDifference(cw, rtts) ==
    LET recent == vegasRTTs(rtts)
        minimumRTT == MinSeq(rtts)
    IN  [n |-> IntPart(cw) * (SumSeq(recent) - minimumRTT * Len(recent)),
         d |-> SumSeq(recent)]

\* mutant of VegasDecision: the decrease takes 2 segments off the window
VegasDecisionShrinkTwo(cw, rtts) ==
    LET diff == throughputDifference(cw, rtts)
    IN  IF FracLess(diff, FracOfInt(VEGAS_MIN_THROUGHPUT_DIFFERENCE))
        THEN FracPlusInt(cw, VEGAS_AMOUNT_TO_CHANGE)
        ELSE IF FracLess(FracOfInt(VEGAS_MAX_THROUGHPUT_DIFFERENCE), diff)
             THEN FracOfInt(Max(IntPart(cw) - 2, 2))
             ELSE cw

\* the Vegas decision on the throughput difference
VegasDecision(cw, rtts) ==
    LET diff == throughputDifference(cw, rtts)
    IN  IF FracLess(diff, FracOfInt(VEGAS_MIN_THROUGHPUT_DIFFERENCE))
        THEN FracPlusInt(cw, VEGAS_AMOUNT_TO_CHANGE)
        ELSE IF FracLess(FracOfInt(VEGAS_MAX_THROUGHPUT_DIFFERENCE), diff)
             THEN FracOfInt(Max(IntPart(cw) - VEGAS_AMOUNT_TO_CHANGE, 2))
             ELSE cw

\* hybrid window growth; rtts are the samples after this ACK's appends,
\* sampled says whether this ACK appended one (currentRTT != None)
CustomGrowth(cw, k, sampled, rtts) ==
    IF k > 0 /\ sampled
    THEN IF FracLess(cw, FracOfInt(slowStartThreshold))
         THEN FracPlusInt(cw, k)
         ELSE IF weShouldDoVegas /\ Len(vegasRTTs(rtts)) >= VEGAS_CONGESTION_AVOIDANCE_THRESHOLD
              THEN VegasDecision(cw, rtts)
              ELSE IF ~weShouldDoVegas
                   THEN FracPlusInt(cw, k \div IntPart(cw))
                   ELSE cw
    ELSE cw

\* mutant of CustomArmed: every growth step arms the delay-based phase
CustomArmedAnyGrowth(cw, k, sampled) ==
    IF k > 0 /\ sampled THEN TRUE ELSE weShouldDoVegas

\* weShouldDoVegas after the growth step
CustomArmed(cw, k, sampled) ==
    IF /\ k > 0
       /\ sampled
       /\ FracLess(cw, FracOfInt(slowStartThreshold))
       /\ ~FracLess(FracPlusInt(cw, k), FracOfInt(slowStartThreshold))
    THEN TRUE
    ELSE weShouldDoVegas

----------------------------------------------------------------------------
\* Steps of the sender.  Each defines the next value of every sender variable.

fixedParams == <<variant, dataLen, chunksToSend>>

\* Top of the outer loop with base < len: the inner send loop, up to the blocking recvfrom.
Fill ==
    /\ pc = "fill"
    /\ variant \in Windowed
    /\ base < Len(chunksToSend)
    /\ next' = FillStop
    /\ packetSendTimestamps' =
           packetSendTimestamps \cup {chunksToSend[i + 1].seq : i \in next..(FillStop - 1)}
    /\ staleStamps' = Restamped(staleStamps, {chunksToSend[i + 1].seq : i \in next..(FillStop - 1)})
    /\ out' = [j \in 1..(FillStop - next) |-> DataPacket(next + j - 1)]
    /\ transmitted' = transmitted \cup (next..(FillStop - 1))
    /\ pc' = "await"
    /\ ev' = "fill"
    /\ UNCHANGED <<fixedParams, base, congestionWindow, slowStartThreshold,
                   numDuplicateACKs, lastACKid, weShouldDoVegas, RTTs, retries, sends,
                   inp, dupRun>>

\* Top of the outer loop with base = len: the loop ends.  Tahoe and hybrid enter the
\* final wait loop; the fixed-window script closes the socket, prints and returns.
LoopExit ==
    /\ pc = "fill"
    /\ variant \in Windowed
    /\ base >= Len(chunksToSend)
    /\ pc' = IF variant = "fixed" THEN printMetrics(variant, RTTs) ELSE "finwait"
    /\ ev' = "exit"
    /\ out' = <<>>
    /\ UNCHANGED <<fixedParams, base, next, congestionWindow, slowStartThreshold,
                   numDuplicateACKs, lastACKid, weShouldDoVegas, packetSendTimestamps,
                   staleStamps,
                   RTTs, retries, sends, inp, transmitted, dupRun>>

\* message.startswith("fin"): reply FIN/ACK, print the metrics, return.
\* Same code in the transfer loop and in the final wait loop of every script.
OnFin(ACKid) ==
    /\ pc \in {"await", "finwait"}
    /\ out' = <<FinAckPacket(ACKid)>>
    /\ pc' = printMetrics(variant, RTTs)
    /\ ev' = "fin"
    /\ inp' = [ACKid |-> ACKid, message |-> "fin"]
    /\ UNCHANGED <<fixedParams, base, next, congestionWindow, slowStartThreshold,
                   numDuplicateACKs, lastACKid, weShouldDoVegas, packetSendTimestamps,
                   staleStamps,
                   RTTs, retries, sends, transmitted, dupRun>>

\* Tahoe / hybrid: ACKid == lastACKid.
OnDuplicateACK(ACKid, message) ==
    /\ pc = "await"
    /\ variant \in Adaptive
    /\ IsDuplicateACK(ACKid)
    /\ inp' = [ACKid |-> ACKid, message |-> message]
    /\ dupRun' = dupRun + 1
    /\ IF FastRetransmitDue(numDuplicateACKs + 1)
       THEN /\ out' = IF base < Len(chunksToSend) THEN <<DataPacket(base)>> ELSE <<>>
            /\ transmitted' = IF base < Len(chunksToSend)
                              THEN transmitted \cup {base}
                              ELSE transmitted
            /\ staleStamps' = IF base < Len(chunksToSend)
                              THEN Unstamped(staleStamps, {chunksToSend[base + 1].seq})
                              ELSE staleStamps
            /\ slowStartThreshold' = FastRetransmitThreshold(variant, congestionWindow)
            /\ congestionWindow' = FastRetransmitWindow(variant, slowStartThreshold')
            /\ weShouldDoVegas' = FALSE
            /\ numDuplicateACKs' = 0
            /\ ev' = "fastretx"
       ELSE /\ out' = <<>>
            /\ numDuplicateACKs' = numDuplicateACKs + 1
            /\ ev' = "dup"
            /\ UNCHANGED <<transmitted, staleStamps, slowStartThreshold,
                           congestionWindow, weShouldDoVegas>>
    /\ pc' = "fill"
    /\ UNCHANGED <<fixedParams, base, next, lastACKid, packetSendTimestamps, RTTs,
                   retries, sends>>

\* Tahoe / hybrid: any other non-fin datagram is a new ACK; samples are the
\* round-trip times measured for the slid segments that have a send time.
OnNewACKWith(ACKid, message, samples) ==
    /\ pc = "await"
    /\ variant \in Adaptive
    /\ ~IsDuplicateACK(ACKid)
    /\ inp' = [ACKid |-> ACKid, message |-> message]
    /\ numDuplicateACKs' = 0
    /\ dupRun' = 0
    /\ lastACKid' = ACKid
    /\ base' = SlideBase(base, ACKid)
    /\ RTTs' = RTTs \o samples
    /\ congestionWindow' =
          IF variant = "tahoe"
          THEN TahoeGrowth(congestionWindow, base' - base)
          ELSE CustomGrowth(congestionWindow, base' - base, samples # <<>>, RTTs')
    /\ weShouldDoVegas' =
          IF variant = "tahoe"
          THEN weShouldDoVegas
          ELSE CustomArmed(congestionWindow, base' - base, samples # <<>>)
    /\ out' = <<>>
    /\ pc' = "fill"
    /\ ev' = "newack"
    /\ staleStamps' = StillOutstanding(staleStamps, base')
    /\ UNCHANGED <<fixedParams, next, slowStartThreshold, packetSendTimestamps,
                   retries, sends, transmitted>>

OnNewACK(ACKid, message) ==
    \E samples \in [1..StampedIn(base, SlideBase(base, ACKid)) ->
                       RTTChoices(Len(chunksToSend))] :
        OnNewACKWith(ACKid, message, samples)

\* Fixed window: every non-fin datagram slides base.
OnFixedACK(ACKid, message) ==
    /\ pc = "await"
    /\ variant = "fixed"
    /\ inp' = [ACKid |-> ACKid, message |-> message]
    /\ base' = SlideBase(base, ACKid)
    /\ \E samples \in [1..StampedIn(base, base') -> RTTChoices(Len(chunksToSend))] :
          RTTs' = RTTs \o samples
    /\ out' = <<>>
    /\ pc' = "fill"
    /\ ev' = IF base' > base THEN "newack" ELSE "stale"
    /\ staleStamps' = StillOutstanding(staleStamps, base')
    /\ UNCHANGED <<fixedParams, next, congestionWindow, slowStartThreshold,
                   numDuplicateACKs, lastACKid, weShouldDoVegas, packetSendTimestamps,
                   retries, sends, transmitted, dupRun>>

\* socket.timeout in the transfer loop of a windowed script.
OnTimeout ==
    /\ pc = "await"
    /\ variant \in Windowed
    /\ next' = base
    /\ IF variant \in Adaptive
       THEN /\ slowStartThreshold' = TimeoutThreshold(congestionWindow)
            /\ congestionWindow' = TimeoutWindow
            /\ numDuplicateACKs' = 0
            /\ weShouldDoVegas' = FALSE
            /\ dupRun' = 0
       ELSE UNCHANGED <<slowStartThreshold, congestionWindow, numDuplicateACKs,
                        weShouldDoVegas, dupRun>>
    /\ out' = <<>>
    /\ pc' = "fill"
    /\ ev' = "timeout"
    /\ UNCHANGED <<fixedParams, base, lastACKid, packetSendTimestamps, staleStamps, RTTs,
                   retries, sends,
                   inp, transmitted>>

\* Final wait loop: a datagram that is not "fin" is read and dropped.
OnFinWaitOther(ACKid, message) ==
    /\ pc = "finwait"
    /\ message # "fin"
    /\ inp' = [ACKid |-> ACKid, message |-> message]
    /\ out' = <<>>
    /\ ev' = "ignored"
    /\ UNCHANGED <<fixedParams, pc, base, next, congestionWindow, slowStartThreshold,
                   numDuplicateACKs, lastACKid, weShouldDoVegas, packetSendTimestamps,
                   staleStamps,
                   RTTs, retries, sends, transmitted, dupRun>>

\* Final wait loop: recvfrom is outside any try, socket.timeout reaches the
\* except Exception of __main__ and the process exits with status 1.
OnFinWaitTimeout ==
    /\ pc = "finwait"
    /\ pc' = "fatal"
    /\ out' = <<>>
    /\ ev' = "timeout"
    /\ UNCHANGED <<fixedParams, base, next, congestionWindow, slowStartThreshold,
                   numDuplicateACKs, lastACKid, weShouldDoVegas, packetSendTimestamps,
                   staleStamps,
                   RTTs, retries, sends, inp, transmitted, dupRun>>

----------------------------------------------------------------------------
\* Stop-and-wait.

\* Top of the while True loop: sendto of the current segment.
SawSend ==
    /\ pc = "send"
    /\ variant = "saw"
    /\ sends < MaxSends
    /\ out' = <<DataPacket(base)>>
    /\ transmitted' = transmitted \cup {base}
    /\ sends' = sends + 1
    /\ pc' = "await"
    /\ ev' = "send"
    /\ UNCHANGED <<fixedParams, base, next, congestionWindow, slowStartThreshold,
                   numDuplicateACKs, lastACKid, weShouldDoVegas, packetSendTimestamps,
                   staleStamps,
                   RTTs, retries, inp, dupRun>>

\* except socket.timeout: retries += 1; RuntimeError above MAX_TIMEOUTS, else continue.
SawTimeout ==
    /\ pc = "await"
    /\ variant = "saw"
    /\ retries' = retries + 1
    /\ pc' = IF retries' > MAX_TIMEOUTS THEN "fatal" ELSE "send"
    /\ out' = <<>>
    /\ ev' = "timeout"
    /\ UNCHANGED <<fixedParams, base, next, congestionWindow, slowStartThreshold,
                   numDuplicateACKs, lastACKid, weShouldDoVegas, packetSendTimestamps,
                   staleStamps,
                   RTTs, inp, transmitted, dupRun, sends>>

\* message.startswith("ack") and ACKid >= sequenceID + len(payload)
SawAccepts(ACKid, message) == message = "ack" /\ ACKid >= nextExpectedACKid(base)

\* A non-fin datagram: either it acknowledges the current segment (break, next
\* segment of the for loop), or the while True loop iterates and sends again.
SawOnACK(ACKid, message) ==
    /\ pc = "await"
    /\ variant = "saw"
    /\ inp' = [ACKid |-> ACKid, message |-> message]
    /\ out' = <<>>
    /\ IF SawAccepts(ACKid, message)
       THEN /\ \E sample \in RTTChoices(Len(chunksToSend)) : RTTs' = Append(RTTs, sample)
            /\ retries' = 0
            /\ sends' = 0
            /\ base' = base + 1
            /\ pc' = IF base' = Len(chunksToSend) THEN "finwait" ELSE "send"
            /\ ev' = "newack"
       ELSE /\ pc' = "send"
            /\ ev' = "stale"
            /\ UNCHANGED <<RTTs, retries, sends, base>>
    /\ UNCHANGED <<fixedParams, next, congestionWindow, slowStartThreshold,
                   numDuplicateACKs, lastACKid, weShouldDoVegas, packetSendTimestamps,
                   staleStamps,
                   transmitted, dupRun>>

----------------------------------------------------------------------------
\* Open system: the network may hand the sender any datagram, or none, at any time.

StartFill == Fill /\ UNCHANGED envVars

EndLoop == LoopExit /\ UNCHANGED envVars

ReceiveFin == \E a \in AckIds : OnFin(a) /\ UNCHANGED envVars

ReceiveDuplicateACK ==
    \E a \in AckIds, m \in Messages \ {"fin"} :
        /\ dupRun < MaxDupRun
        /\ OnDuplicateACK(a, m)
        /\ UNCHANGED envVars

ReceiveNewACK ==
    \E a \in AckIds, m \in Messages \ {"fin"} : OnNewACK(a, m) /\ UNCHANGED envVars

ReceiveFixedACK ==
    \E a \in AckIds, m \in Messages \ {"fin"} : OnFixedACK(a, m) /\ UNCHANGED envVars

Timeout == OnTimeout /\ UNCHANGED envVars

FinWaitOther ==
    \E a \in AckIds, m \in Messages \ {"fin"} : OnFinWaitOther(a, m) /\ UNCHANGED envVars

FinWaitTimeout == OnFinWaitTimeout /\ UNCHANGED envVars

StopAndWaitSend == SawSend /\ UNCHANGED envVars

StopAndWaitTimeout == SawTimeout /\ UNCHANGED envVars

StopAndWaitACK ==
    \E a \in AckIds, m \in Messages \ {"fin"} : SawOnACK(a, m) /\ UNCHANGED envVars

Init == SenderInit /\ EnvInit

Next ==
    \/ StartFill
    \/ EndLoop
    \/ ReceiveFin
    \/ ReceiveDuplicateACK
    \/ ReceiveNewACK
    \/ ReceiveFixedACK
    \/ Timeout
    \/ FinWaitOther
    \/ FinWaitTimeout
    \/ StopAndWaitSend
    \/ StopAndWaitTimeout
    \/ StopAndWaitACK

Spec == Init /\ [][Next]_vars

----------------------------------------------------------------------------
\* Closed system: the Tahoe and hybrid senders against a receiver that answers
\* every segment with a cumulative ACK and emits "fin" once it holds the whole
\* stream and the EOF segment, over FIFO channels that lose at most MaxLoss
\* datagrams.  The receive timeout fires only when nothing is in flight.

\* receiver: next expected offset once the contiguous buffered segments are taken
RECURSIVE RcvAdvance(_, _)
RcvAdvance(n, buf) ==
    IF \E s \in buf : s.seq = n /\ s.len > 0
    THEN RcvAdvance(n + (CHOOSE s \in buf : s.seq = n /\ s.len > 0).len, buf)
    ELSE n

\* receiver: the EOF segment is held and everything before it has arrived
RcvComplete(n, buf) == \E s \in buf : s.seq = n /\ s.len = 0

ReceiverStep ==
    /\ chanSR # <<>>
    /\ chanSR' = Tail(chanSR)
    /\ LET d == Head(chanSR)
       IN  IF d.kind = "data"
           THEN /\ rcvBuf' = IF d.seq >= rcvNext THEN rcvBuf \cup {d} ELSE rcvBuf
                /\ rcvNext' = RcvAdvance(rcvNext, rcvBuf')
                /\ chanRS' =
                      chanRS \o <<[ACKid |-> rcvNext', message |-> "ack"]>>
                             \o (IF d.len = 0 /\ RcvComplete(rcvNext', rcvBuf')
                                 THEN <<[ACKid |-> rcvNext', message |-> "fin"]>>
                                 ELSE <<>>)
           ELSE UNCHANGED <<rcvBuf, rcvNext, chanRS>>
    /\ UNCHANGED <<senderVars, lossBudget>>

LoseSegment ==
    /\ lossBudget > 0
    /\ chanSR # <<>>
    /\ chanSR' = Tail(chanSR)
    /\ lossBudget' = lossBudget - 1
    /\ UNCHANGED <<senderVars, chanRS, rcvNext, rcvBuf>>

LoseReply ==
    /\ lossBudget > 0
    /\ chanRS # <<>>
    /\ chanRS' = Tail(chanRS)
    /\ lossBudget' = lossBudget - 1
    /\ UNCHANGED <<senderVars, chanSR, rcvNext, rcvBuf>>

\* the sender's datagrams of this step enter the channel
Transmit ==
    /\ chanSR' = chanSR \o out'
    /\ UNCHANGED <<rcvNext, rcvBuf, lossBudget>>

Quiet == chanSR = <<>> /\ chanRS = <<>>

NetFill == Fill /\ Transmit /\ UNCHANGED chanRS

NetEndLoop == LoopExit /\ Transmit /\ UNCHANGED chanRS

NetFin ==
    /\ chanRS # <<>>
    /\ Head(chanRS).message = "fin"
    /\ OnFin(Head(chanRS).ACKid)
    /\ chanRS' = Tail(chanRS)
    /\ Transmit

NetDuplicateACK ==
    /\ chanRS # <<>>
    /\ Head(chanRS).message # "fin"
    /\ OnDuplicateACK(Head(chanRS).ACKid, Head(chanRS).message)
    /\ chanRS' = Tail(chanRS)
    /\ Transmit

NetNewACK ==
    /\ chanRS # <<>>
    /\ Head(chanRS).message # "fin"
    /\ OnNewACK(Head(chanRS).ACKid, Head(chanRS).message)
    /\ chanRS' = Tail(chanRS)
    /\ Transmit

NetTimeout == Quiet /\ OnTimeout /\ UNCHANGED envVars

NetFinWaitOther ==
    /\ chanRS # <<>>
    /\ OnFinWaitOther(Head(chanRS).ACKid, Head(chanRS).message)
    /\ chanRS' = Tail(chanRS)
    /\ Transmit

NetFinWaitTimeout == Quiet /\ OnFinWaitTimeout /\ UNCHANGED envVars

InitRecv ==
    /\ SenderInit
    /\ variant \in Adaptive
    /\ chanSR = <<>>
    /\ chanRS = <<>>
    /\ rcvNext = 0
    /\ rcvBuf = {}
    /\ lossBudget = MaxLoss

NextRecv ==
    \/ NetFill
    \/ NetEndLoop
    \/ NetFin
    \/ NetDuplicateACK
    \/ NetNewACK
    \/ NetTimeout
    \/ NetFinWaitOther
    \/ NetFinWaitTimeout
    \/ ReceiverStep
    \/ LoseSegment
    \/ LoseReply

SpecRecv == InitRecv /\ [][NextRecv]_vars

----------------------------------------------------------------------------
\* Long fixed-window transfers: the fixed-window script with a payload of more
\* segments than WINDOW_SIZE, and with the 5000-byte payload, against a network that
\* may deliver any datagram carrying one of a sparse set of ACK numbers, or time out.

FixedPayloadSizes == {5000, FixedLongChunks * MAX_SEGMENT_SIZE}

\* ACK numbers delivered in the long runs: -1, the first boundaries, every
\* AckStride-th boundary, the last boundaries, one past the end
LongAckIds ==
    {-1} \cup {chunksToSend[j].seq :
                 j \in {i \in 1..Len(chunksToSend) :
                           i <= 3 \/ i % AckStride = 1 \/ i >= Len(chunksToSend) - 2}}
         \cup {totalBytes + 1}

FixedLongFin == \E a \in LongAckIds : OnFin(a) /\ UNCHANGED envVars

FixedLongACK ==
    \E a \in LongAckIds, m \in Messages \ {"fin"} : OnFixedACK(a, m) /\ UNCHANGED envVars

InitFixed ==
    /\ variant = "fixed"
    /\ dataLen \in FixedPayloadSizes
    /\ SenderStart
    /\ EnvInit

NextFixed ==
    \/ StartFill
    \/ EndLoop
    \/ FixedLongFin
    \/ FixedLongACK
    \/ Timeout

SpecFixed == InitFixed /\ [][NextFixed]_vars

----------------------------------------------------------------------------
\* Slow-start runs: the Tahoe and hybrid scripts with a payload of SlowStartChunks
\* chunks, no loss and no timeout; the receiver's ACKs carry the end offset of any
\* segment sent so far, and no ACK is delivered twice in a row.

\* end offsets of the segments sent so far
SentAckIds == {nextExpectedACKid(i) : i \in 0..(next - 1)}

SlowStartACK == \E a \in SentAckIds : OnNewACK(a, "ack") /\ UNCHANGED envVars

SlowStartFin == OnFin(totalBytes) /\ UNCHANGED envVars

InitSlowStart ==
    /\ variant \in Adaptive
    /\ dataLen = SlowStartChunks * MAX_SEGMENT_SIZE
    /\ SenderStart
    /\ EnvInit

NextSlowStart ==
    \/ StartFill
    \/ EndLoop
    \/ SlowStartACK
    \/ SlowStartFin

SpecSlowStart == InitSlowStart /\ [][NextSlowStart]_vars

----------------------------------------------------------------------------
\* Delay-based runs: the hybrid script with a payload of VegasChunks chunks.  An ACK
\* carries the end offset of a segment that is outstanding, all the segments it
\* slides get the same round-trip time, and round-trip times do not decrease over
\* the run (a queue building up); the last ACK may be repeated; timeouts occur.

\* end offsets of the outstanding segments
OutstandingAckIds == {nextExpectedACKid(i) : i \in base..(next - 1)}

VegasACK ==
    \E a \in OutstandingAckIds, r \in RTTValues :
        /\ r >= (IF RTTs = <<>> THEN 0 ELSE RTTs[Len(RTTs)])
        /\ OnNewACKWith(a, "ack", [i \in 1..StampedIn(base, SlideBase(base, a)) |-> r])
        /\ UNCHANGED envVars

VegasDuplicateACK ==
    /\ dupRun < MaxDupRun
    /\ OnDuplicateACK(lastACKid, "ack")
    /\ UNCHANGED envVars

VegasFin == OnFin(totalBytes) /\ UNCHANGED envVars

InitVegas ==
    /\ variant = "custom"
    /\ dataLen = VegasChunks * MAX_SEGMENT_SIZE
    /\ SenderStart
    /\ EnvInit

NextVegas ==
    \/ StartFill
    \/ EndLoop
    \/ VegasACK
    \/ VegasDuplicateACK
    \/ Timeout
    \/ VegasFin

SpecVegas == InitVegas /\ [][NextVegas]_vars

----------------------------------------------------------------------------
\* Properties.

EofIndex == Len(chunksToSend) - 1

\* C1: against a receiver that ACKs every segment cumulatively and emits "fin" after
\* the EOF segment, over a network that loses finitely many datagrams, the Tahoe and
\* hybrid senders never end in a fatal error and, once nothing more can happen, have
\* exited successfully (FIN/ACK sent, metrics printed).
C1_ExitsSuccessfully ==
    /\ pc # "fatal"
    /\ (~ENABLED NextRecv) => (pc = "done" /\ ev = "fin")

\* C2: a windowed sender leaves the fill/await loop because base reached the end of
\* the segment list only if the EOF segment has been transmitted at least once.
C2_EofSentBeforeLoopEnds ==
    (variant \in Windowed /\ ev = "exit") => EofIndex \in transmitted

\* C3: in every variant the successful end state is reached only by receiving "fin"
\* and replying FIN/ACK with the same ackID.
C3_DoneOnlyAfterFinAck ==
    pc = "done" =>
        /\ ev = "fin"
        /\ inp.message = "fin"
        /\ out = <<[seq |-> inp.ACKid, kind |-> "FIN/ACK", len |-> 7]>>

\* C4: in every variant a received "fin" is answered in the same step with exactly one
\* FIN/ACK carrying the received ackID, the sender is then terminated, the step leaves
\* base, next, congestionWindow and slowStartThreshold alone, and a terminated sender
\* takes no further step (so it sends nothing more).
C4_FinShortCircuits ==
    [][ /\ pc \notin Terminated
        /\ inp'.message = "fin" =>
              /\ out' = <<[seq |-> inp'.ACKid, kind |-> "FIN/ACK", len |-> 7]>>
              /\ pc' \in Terminated
              /\ base' = base
              /\ next' = next
              /\ congestionWindow' = congestionWindow
              /\ slowStartThreshold' = slowStartThreshold ]_vars

\* C4 witness: a "fin" answered in mid-transfer, with segments still unacknowledged.
C4_Witness ==
    /\ ev = "fin"
    /\ pc \in Terminated
    /\ base < next
    /\ base < EofIndex
    /\ out = <<[seq |-> inp.ACKid, kind |-> "FIN/ACK", len |-> 7]>>

\* C5: in every windowed variant 0 <= base <= next <= number of segments.
C5_WindowOrder ==
    variant \in Windowed =>
        /\ 0 <= base
        /\ base <= next
        /\ next <= Len(chunksToSend)

\* C6: under Tahoe and the hybrid, next - base <= ceil(congestionWindow).
C6_OutstandingWithinWindow ==
    variant \in Adaptive =>
        next - base <= (congestionWindow.n + congestionWindow.d - 1) \div congestionWindow.d

\* C7: a receive timeout in the transfer loop of the Tahoe or hybrid sender sets
\* slowStartThreshold to max(int(congestionWindow / 2), 1) of the old window, sets
\* congestionWindow to 1, the duplicate counter to 0 and next to base, and leaves base
\* and lastACKid unchanged.
C7_TimeoutRule ==
    [][ (variant \in Adaptive /\ pc = "await" /\ ev' = "timeout") =>
            /\ slowStartThreshold' =
                  (IF congestionWindow.n \div (2 * congestionWindow.d) >= 1
                   THEN congestionWindow.n \div (2 * congestionWindow.d)
                   ELSE 1)
            /\ congestionWindow' = [n |-> 1, d |-> 1]
            /\ numDuplicateACKs' = 0
            /\ next' = base
            /\ base' = base
            /\ lastACKid' = lastACKid ]_vars

\* C7 witness: after a timeout that halved a window of at least 4 while segments
\* were outstanding and duplicates had been counted.
C7_Witness ==
    /\ variant \in Adaptive
    /\ ev = "timeout"
    /\ pc = "fill"
    /\ slowStartThreshold >= 2
    /\ slowStartThreshold < INITIAL_SLOW_START_THRESHOLD
    /\ congestionWindow = [n |-> 1, d |-> 1]
    /\ next = base
    /\ base > 0
    /\ base \in transmitted

\* C8: under Tahoe and the hybrid, the duplicate ACK that brings the counter to 3
\* resends the segment at base, sets slowStartThreshold to max(int(cwnd / 2), 2),
\* sets congestionWindow to 1 and the duplicate counter to 0.
C8_FastRetransmitRule ==
    [][ (variant \in Adaptive /\ pc = "await" /\ dupRun' = dupRun + 1
            /\ numDuplicateACKs + 1 = 3) =>
            /\ out' = <<[seq |-> chunksToSend[base + 1].seq, kind |-> "data",
                         len |-> chunksToSend[base + 1].len]>>
            /\ slowStartThreshold' =
                  (IF congestionWindow.n \div (2 * congestionWindow.d) >= 2
                   THEN congestionWindow.n \div (2 * congestionWindow.d)
                   ELSE 2)
            /\ congestionWindow' = [n |-> 1, d |-> 1]
            /\ numDuplicateACKs' = 0 ]_vars

\* C9: in a run of duplicate ACKs of one ackID the third one, and only the third one
\* of the first four, retransmits the segment at base and resets threshold and window;
\* the first, second and fourth send nothing and change neither.
C9_OneFastRetransmit ==
    [][ (variant \in Adaptive /\ dupRun' = dupRun + 1 /\ dupRun' <= 4) =>
            IF dupRun' = 3
            THEN /\ ev' = "fastretx"
                 /\ out' = <<[seq |-> chunksToSend[base + 1].seq, kind |-> "data",
                              len |-> chunksToSend[base + 1].len]>>
                 /\ numDuplicateACKs' = 0
                 /\ slowStartThreshold' <= Max(IntPart(congestionWindow) \div 2, 2)
                 /\ IntPart(congestionWindow') <= slowStartThreshold'
            ELSE /\ ev' = "dup"
                 /\ out' = <<>>
                 /\ transmitted' = transmitted
                 /\ congestionWindow' = congestionWindow
                 /\ slowStartThreshold' = slowStartThreshold ]_vars

\* C9 witness: the fourth duplicate of a run has been received, one retransmission
\* of the segment at base lies behind.
C9_Witness ==
    /\ variant \in Adaptive
    /\ dupRun = 4
    /\ ev = "dup"
    /\ numDuplicateACKs = 1
    /\ out = <<>>

\* C10: under Tahoe and the hybrid, congestionWindow >= 1 and slowStartThreshold >= 1
\* always; a timeout leaves the window at exactly 1, a fast retransmit leaves
\* slowStartThreshold >= 2, a delay-based decrease leaves congestionWindow >= 2.
C10_Floors ==
    [][ (variant \in Adaptive) =>
            /\ congestionWindow'.n >= congestionWindow'.d
            /\ slowStartThreshold' >= 1
            /\ ((ev' = "timeout" /\ pc = "await") => congestionWindow' = [n |-> 1, d |-> 1])
            /\ (ev' = "fastretx" => slowStartThreshold' >= 2)
            /\ ((ev' = "newack" /\ FracLess(congestionWindow', congestionWindow)) =>
                  congestionWindow'.n >= 2 * congestionWindow'.d)
      ]_vars

\* C11: in every variant, a payload file of zero bytes ends the sender in a fatal
\* "no payload" state before any datagram is sent: no data segment, no EOF segment
\* and no substitute content is ever transmitted.
C11_NoPayloadRejected ==
    dataLen = 0 =>
        /\ transmitted = {}
        /\ out = <<>>
        /\ pc \notin {"await", "finwait", "done"}

\* C12: under Tahoe and the hybrid a receive timeout is recoverable in every phase:
\* in the transfer loop it applies the timeout rule and rewinds next to base, and in
\* the final wait for "fin" it never ends the sender in a fatal state.
C12_TimeoutRecoverable ==
    [][ (variant \in Adaptive /\ ev' = "timeout") =>
            /\ pc' # "fatal"
            /\ (pc = "await" =>
                   /\ pc' = "fill"
                   /\ next' = base
                   /\ base' = base
                   /\ congestionWindow' = [n |-> 1, d |-> 1])
      ]_vars

\* C13: under stop-and-wait a timeout leaves the segment to be sent again while the
\* count of timeouts is at most MAX_TIMEOUTS and ends the transfer in a fatal state
\* (nothing sent) once it exceeds MAX_TIMEOUTS; the count goes back to 0 only when
\* an "ack" with ackID >= offset + length arrives; and no segment is transmitted
\* more than MAX_TIMEOUTS + 1 times.
C13_BoundedRetries ==
    [][ (variant = "saw") =>
            /\ ((pc = "await" /\ ev' = "timeout") =>
                   /\ retries' = retries + 1
                   /\ base' = base
                   /\ out' = <<>>
                   /\ pc' = IF retries' > 3 THEN "fatal" ELSE "send")
            /\ ((pc = "send" /\ ev = "timeout") =>
                   out' = <<[seq |-> chunksToSend[base + 1].seq, kind |-> "data",
                             len |-> chunksToSend[base + 1].len]>>)
            /\ (retries' < retries =>
                   /\ retries' = 0
                   /\ inp'.message = "ack"
                   /\ inp'.ACKid >= chunksToSend[base + 1].seq + chunksToSend[base + 1].len)
            /\ sends' <= 3 + 1
      ]_vars

\* C14: under the fixed sliding window next - base <= 100 in every state, every
\* fill sends up to base + 100 (the window size never changes), and a timeout in
\* the transfer loop sets next to base and leaves base, the send-time table and the
\* recorded delay samples unchanged.
C14_FixedWindow ==
    [][ (variant = "fixed") =>
            /\ next' - base' <= 100
            /\ (ev' = "fill" =>
                   next' = IF next < Len(chunksToSend) /\ next < base + 100
                           THEN (IF Len(chunksToSend) < base + 100
                                 THEN Len(chunksToSend)
                                 ELSE base + 100)
                           ELSE next)
            /\ ((pc = "await" /\ ev' = "timeout") =>
                   /\ next' = base
                   /\ base' = base
                   /\ packetSendTimestamps' = packetSendTimestamps
                   /\ RTTs' = RTTs
                   /\ pc' = "fill")
      ]_vars

C14_Witness ==
    /\ variant = "fixed"
    /\ Len(chunksToSend) > 100
    /\ ev = "fill"
    /\ base > 0
    /\ next - base = 100
    /\ RTTs # <<>>

\* C15: under the fixed sliding window a 5000-byte payload gives 5 data segments and
\* the EOF segment at offset 5000, the first fill sends all 6, and the transfer
\* completes only on a "fin", answered by FIN/ACK.
C15_Scenario5000 ==
    (variant = "fixed" /\ dataLen = 5000) =>
        /\ Len(chunksToSend) = 6
        /\ \A i \in 1..5 : chunksToSend[i].len > 0
        /\ chunksToSend[6] = [seq |-> 5000, len |-> 0]
        /\ (ev # "init" => transmitted = 0..5)
        /\ (pc = "done" =>
               /\ ev = "fin"
               /\ out = <<[seq |-> inp.ACKid, kind |-> "FIN/ACK", len |-> 7]>>)

\* C16: in every variant a datagram whose text is neither "fin..." nor "ack..." is
\* treated as duplicate/stale whatever its ackID: it does not advance base, adds no
\* RTT sample, does not grow the window and does not end the sender in a fatal state.
C16_MalformedIsStale ==
    [][ (/\ pc \in {"await", "finwait"}
         /\ inp'.message = "other"
         /\ ev' \in {"dup", "fastretx", "newack", "stale", "ignored"}) =>
            /\ base' = base
            /\ RTTs' = RTTs
            /\ congestionWindow'.n * congestionWindow.d <= congestionWindow.n * congestionWindow'.d
            /\ pc' # "fatal"
      ]_vars

\* C17: the segment list built for a payload of S bytes has ceil(S / M) + 1 entries,
\* offsets that start at 0 and each equal the sum of the preceding lengths, non-EOF
\* lengths in 1..M, a last entry that is the EOF segment at offset S, and lengths
\* that add up to S.
C17_SegmentList ==
    LET M == 1020
        count == Len(chunksToSend)
    IN  /\ count = ((dataLen + M - 1) \div M) + 1
        /\ chunksToSend[1].seq = 0
        /\ \A i \in 1..(count - 1) :
              /\ chunksToSend[i + 1].seq = chunksToSend[i].seq + chunksToSend[i].len
              /\ chunksToSend[i].len \in 1..M
        /\ chunksToSend[count] = [seq |-> dataLen, len |-> 0]

\* C18: in every windowed variant a new cumulative ACK a leaves base at the smallest
\* index i >= old base with offset_i + len_i > a (the segment count if none), base
\* never decreases, and one RTT sample is appended per segment slid past.
C18_SlideRule ==
    [][ (variant \in Windowed) =>
            /\ base' >= base
            /\ (ev' = "newack" =>
                   LET a == inp'.ACKid
                       open == {i \in base..(Len(chunksToSend) - 1) :
                                   chunksToSend[i + 1].seq + chunksToSend[i + 1].len > a}
                   IN  /\ base' = IF open = {}
                                  THEN Len(chunksToSend)
                                  ELSE CHOOSE i \in open : \A j \in open : i <= j
                       /\ Len(RTTs') = Len(RTTs) + (base' - base)
                       /\ SubSeq(RTTs', 1, Len(RTTs)) = RTTs)
      ]_vars

\* C19: under Tahoe and the hybrid a non-fin ACK is handled as a new ACK only when its
\* ackID is greater than every ackID seen before (so greater than the last one seen),
\* and an ACK whose ackID is lower than the last one seen neither resets the
\* duplicate counter nor replaces the last-seen ackID.
C19_NewMeansGreater ==
    [][ (/\ variant \in Adaptive
         /\ pc = "await"
         /\ ev' \in {"dup", "fastretx", "newack"}) =>
            /\ (ev' = "newack" => inp'.ACKid > lastACKid)
            /\ (inp'.ACKid < lastACKid =>
                   /\ numDuplicateACKs' = numDuplicateACKs
                   /\ lastACKid' = lastACKid)
      ]_vars

\* C20: under Tahoe and the hybrid, in a run of new ACKs without timeouts, while
\* congestionWindow < slowStartThreshold no step decreases congestionWindow and an
\* ACK that slides k >= 1 segments adds exactly k; from the initial window 1 and
\* threshold 64 the window is base + 1 up to 63 acknowledged segments, so it is 64
\* once 63 segments are acknowledged.
C20_SlowStart ==
    /\ [][ (variant \in Adaptive /\ congestionWindow.n < slowStartThreshold * congestionWindow.d) =>
               /\ congestionWindow.n * congestionWindow'.d <= congestionWindow'.n * congestionWindow.d
               /\ ((ev' = "newack" /\ base' > base) =>
                      congestionWindow'.n * congestionWindow.d =
                          (congestionWindow.n + (base' - base) * congestionWindow.d)
                              * congestionWindow'.d)
         ]_vars
    /\ [](base <= 63 => congestionWindow = [n |-> base + 1, d |-> 1])

C20_Witness ==
    /\ variant \in Adaptive
    /\ ev = "newack"
    /\ base = 63
    /\ Len(RTTs) = 63
    /\ congestionWindow = [n |-> 64, d |-> 1]
    /\ slowStartThreshold = 64

\* C21: under the hybrid, on a new ACK that slides k >= 1 segments while the
\* delay-based phase is armed and congestionWindow >= slowStartThreshold: with the
\* buffer holding the 10 most recent samples at most, avgRTT its mean, minRTT the
\* smallest sample and diff = (cwnd / minRTT - cwnd / avgRTT) * minRTT, the window
\* grows by 1 if diff < 2, becomes max(cwnd - 1, 2) if diff > 4, and is unchanged
\* if 2 <= diff <= 4 or if fewer than 3 samples are buffered.
C21_DelayBasedRule ==
    [][ (/\ variant = "custom"
         /\ ev' = "newack"
         /\ base' > base
         /\ weShouldDoVegas
         /\ congestionWindow.n >= slowStartThreshold * congestionWindow.d) =>
            LET all == RTTs'
                buffered == IF Len(all) > 10 THEN SubSeq(all, Len(all) - 9, Len(all)) ELSE all
                count == Len(buffered)
                total == SumSeq(buffered)
                minRTT == MinSeq(all)
                \* diff = cwnd * (total - minRTT * count) / total
                scaled == congestionWindow.n * (total - minRTT * count)
                unit == total * congestionWindow.d
                cwnd == congestionWindow.n \div congestionWindow.d
            IN  IF count < 3
                THEN congestionWindow' = congestionWindow
                ELSE IF scaled < 2 * unit
                     THEN congestionWindow' = [n |-> cwnd + 1, d |-> 1]
                     ELSE IF scaled > 4 * unit
                          THEN congestionWindow' =
                                   [n |-> IF cwnd - 1 > 2 THEN cwnd - 1 ELSE 2, d |-> 1]
                          ELSE congestionWindow' = congestionWindow
      ]_vars

C21_Witness ==
    /\ variant = "custom"
    /\ ev = "newack"
    /\ weShouldDoVegas
    /\ Len(RTTs) >= 10
    /\ RTTs[1] = 1
    /\ RTTs[Len(RTTs) - 5] = 10
    /\ congestionWindow = [n |-> 4, d |-> 1]
    /\ slowStartThreshold <= 4

\* C22: under the hybrid every fast retransmit and every timeout disarms the
\* delay-based phase, and the phase becomes armed only by a slow-start growth step
\* taken with congestionWindow < slowStartThreshold whose result is >= slowStartThreshold.
C22_ArmingRule ==
    [][ (variant = "custom") =>
            /\ (ev' \in {"fastretx", "timeout"} => ~weShouldDoVegas')
            /\ ((~weShouldDoVegas /\ weShouldDoVegas') =>
                   /\ ev' = "newack"
                   /\ base' > base
                   /\ congestionWindow.n < slowStartThreshold * congestionWindow.d
                   /\ congestionWindow'.n >= slowStartThreshold' * congestionWindow'.d
                   /\ congestionWindow'.n * congestionWindow.d =
                          (congestionWindow.n + (base' - base) * congestionWindow.d)
                              * congestionWindow'.d)
      ]_vars

C22_Witness ==
    /\ variant = "custom"
    /\ ev = "newack"
    /\ weShouldDoVegas
    /\ slowStartThreshold \in 3..63
    /\ congestionWindow.n >= slowStartThreshold * congestionWindow.d

\* C23: under the hybrid, whenever the delay-based phase is armed,
\* congestionWindow >= slowStartThreshold (so no slow-start growth happens while armed).
C23_ArmedAboveThreshold ==
    (variant = "custom" /\ weShouldDoVegas) =>
        congestionWindow.n >= slowStartThreshold * congestionWindow.d

\* C24: in congestion avoidance (Tahoe with congestionWindow >= slowStartThreshold,
\* the hybrid with congestionWindow >= slowStartThreshold and the delay-based phase
\* not armed) an ACK that slides k >= 1 segments adds exactly k / congestionWindow
\* to the window as a rational value, nothing being rounded away.
C24_AvoidanceIncrement ==
    [][ (/\ variant \in Adaptive
         /\ ev' = "newack"
         /\ base' > base
         /\ congestionWindow.n >= slowStartThreshold * congestionWindow.d
         /\ (variant = "tahoe" \/ ~weShouldDoVegas)) =>
            congestionWindow' = FracPlusQuot(congestionWindow, base' - base)
      ]_vars

\* C25: in every variant each transmission of a segment replaces the send-time
\* entry of its offset, so no entry is older than the segment's latest
\* transmission and no RTT sample is taken from such an entry.
C25_LatestSendTime ==
    [][ /\ staleStamps' = {}
        /\ (ev' = "newack" =>
               \A i \in base..(base' - 1) : chunksToSend[i + 1].seq \notin staleStamps)
      ]_vars

\* C26: under stop-and-wait a segment is sent again only after a receive timeout: a
\* stale datagram (not "fin", not an acknowledging "ack") sends nothing and leaves
\* the sender waiting, and the next segment is sent only once the current one has
\* been acknowledged.
C26_ResendOnlyOnTimeout ==
    [][ (variant = "saw") =>
            /\ ((ev' = "send" /\ base \in transmitted) => ev = "timeout")
            /\ (ev' = "stale" => (out' = <<>> /\ pc' = "await"))
            /\ (base' # base =>
                   /\ base' = base + 1
                   /\ inp'.message = "ack"
                   /\ inp'.ACKid >= chunksToSend[base + 1].seq + chunksToSend[base + 1].len)
      ]_vars

\* C27: in every variant, once the sender has answered a "fin" with FIN/ACK it is in
\* the successful end state, whatever the number of RTT samples collected.
C27_MetricsNeverFatal ==
    (ev = "fin" /\ out # <<>> /\ out[1].kind = "FIN/ACK") => pc = "done"

====
